---- MODULE Spec2Model ----
(***************************************************************************)
(* S3-backed write-ahead log (package s3_log, type S3WAL).                 *)
(*                                                                         *)
(* Every record is one object of the bucket.  Keys and bodies are modelled *)
(* byte for byte: a key is the sequence of the character codes of          *)
(* <prefix>/<20-digit zero-padded offset>, a body is                       *)
(* [8-byte big-endian offset][data][32-byte checksum].                     *)
(* The object store (PutObject, GetObject, ListObjectsV2, DeleteObjects)   *)
(* is the variable store, a function from keys to bodies; every store call *)
(* may fail, which the actions draw as an input.                           *)
(***************************************************************************)
EXTENDS Integers, Sequences, FiniteSets, TLC

VARIABLES store, length, last, rets, pure, clean, nops, wal, th, writes

vars == <<store, length, last, rets, pure, clean, nops, wal, th, writes>>

(***************************************************************************)
(* Bounds of the model.                                                    *)
(***************************************************************************)
\* Number of calls in one behaviour.
MaxOps == 4
\* Largest value of the unsigned offset type (2^64 - 1 in the program); the
\* width is scaled down so that the wrap-around of length + 1 is reachable.
UintMax == 15
\* Truncate is called with afterOffset in 0..MaxAfter or with UintMax.
MaxAfter == 2
\* Keys per page of a listing (the store's page size).
PageSize == 2
\* Keys per DeleteObjects call (1000 in the program).
BatchLimit == 2

Uint64 == 0..UintMax

\* Payloads handed to Append: empty and two bytes.
Data == { <<>>, <<65, 66>> }

AfterOffsets == (0..MaxAfter) \cup {UintMax}

\* Read is called with an offset in 0..MaxAfter.
ReadOffsets == 0..MaxAfter

(***************************************************************************)
(* Characters and strings.                                                 *)
(***************************************************************************)
Slash == 47

Zero == 48

\* The prefix argument given to NewS3WAL: "/w/".
RawPrefix == <<47, 119, 47>>

RECURSIVE TrimLeft(_)
TrimLeft(s) ==
    IF s # <<>> /\ Head(s) = Slash THEN TrimLeft(Tail(s)) ELSE s

RECURSIVE TrimRight(_)
TrimRight(s) ==
    IF s # <<>> /\ s[Len(s)] = Slash
    THEN TrimRight(SubSeq(s, 1, Len(s) - 1))
    ELSE s

\* strings.Trim(prefix, "/")
Trim(s) == TrimRight(TrimLeft(s))

\* The prefix field of the engine.
Prefix == Trim(RawPrefix)

\* Go's string order: byte-wise lexicographic, a proper prefix first.
RECURSIVE LexLess(_, _)
LexLess(a, b) ==
    IF b = <<>> THEN FALSE
    ELSE IF a = <<>> THEN TRUE
    ELSE IF Head(a) # Head(b) THEN Head(a) < Head(b)
    ELSE LexLess(Tail(a), Tail(b))

HasPrefix(s, p) == Len(s) >= Len(p) /\ SubSeq(s, 1, Len(p)) = p

\* fmt.Sprintf("%0<w>d", n): the decimal digits of n, zero-padded to width w.
RECURSIVE PadDecimal(_, _)
PadDecimal(n, w) ==
    IF w = 0 THEN <<>>
    ELSE PadDecimal(n \div 10, w - 1) \o <<Zero + (n % 10)>>

KeyDigits == 20

\* getObjectKey without the zero padding ("%d").
getObjectKey_NoPad(offset) ==
    Prefix \o <<Slash>> \o PadDecimal(offset, IF offset < 10 THEN 1 ELSE 2)

getObjectKey(offset) == Prefix \o <<Slash>> \o PadDecimal(offset, KeyDigits)

\* strings.LastIndexByte(key, '/'), 1-based; 0 when there is none.
RECURSIVE LastIndexSlash(_, _)
LastIndexSlash(key, i) ==
    IF i = 0 THEN 0
    ELSE IF key[i] = Slash THEN i
    ELSE LastIndexSlash(key, i - 1)

\* strconv.ParseUint(s, 10, 64): digits only, no sign; a value above the
\* largest unsigned value is a range error.
RECURSIVE ParseUintFrom(_, _, _)
ParseUintFrom(s, i, acc) ==
    IF i > Len(s) THEN [ok |-> TRUE, v |-> acc]
    ELSE IF s[i] < Zero \/ s[i] > Zero + 9 THEN [ok |-> FALSE, v |-> 0]
    ELSE IF acc * 10 + (s[i] - Zero) > UintMax THEN [ok |-> FALSE, v |-> UintMax]
    ELSE ParseUintFrom(s, i + 1, acc * 10 + (s[i] - Zero))

ParseUint(s) ==
    IF s = <<>> THEN [ok |-> FALSE, v |-> 0] ELSE ParseUintFrom(s, 1, 0)

getOffsetFromKey(key) ==
    LET idx == LastIndexSlash(key, Len(key))
    IN  IF idx = 0 \/ idx = Len(key)
        THEN [ok |-> FALSE, v |-> 0]
        ELSE ParseUint(SubSeq(key, idx + 1, Len(key)))

(***************************************************************************)
(* Record framing.                                                         *)
(***************************************************************************)
OffsetSize == 8

ChecksumSize == 32

\* binary.Write(w, binary.BigEndian, n) of a uint64: k bytes, most
\* significant first.
RECURSIVE PutUint(_, _)
PutUint(n, k) ==
    IF k = 0 THEN <<>>
    ELSE PutUint(n \div 256, k - 1) \o <<n % 256>>

\* binary.Read(r, binary.BigEndian, &n); every value above UintMax, which
\* no offset of the model equals, is read as UintMax + 1.
RECURSIVE BigEndian(_)
BigEndian(bytes) ==
    IF bytes = <<>> THEN 0
    ELSE LET v == BigEndian(SubSeq(bytes, 1, Len(bytes) - 1)) * 256
                  + bytes[Len(bytes)]
         IN  IF v > UintMax THEN UintMax + 1 ELSE v

\* SHA-256 as a collision-free function to 32 bytes: the length of the
\* input followed by the input, zero-filled (inputs are shorter than 32).
Sha256(s) ==
    [i \in 1..ChecksumSize |->
        IF i = 1 THEN Len(s)
        ELSE IF i - 1 <= Len(s) THEN s[i - 1]
        ELSE 0]

\* prepareBody that hashes the data without the offset.
prepareBody_HashDataOnly(offset, data) ==
    PutUint(offset, OffsetSize) \o data \o Sha256(data)

\* prepareBody that puts the checksum before the data.
prepareBody_SumFirst(offset, data) ==
    LET hashed == PutUint(offset, OffsetSize) \o data
    IN  PutUint(offset, OffsetSize) \o Sha256(hashed) \o data

prepareBody(offset, data) ==
    LET hashed == PutUint(offset, OffsetSize) \o data
    IN  hashed \o Sha256(hashed)

\* validateChecksum that compares nothing.
validateChecksum_NoCompare(full) == Len(full) >= ChecksumSize

validateChecksum(full) ==
    IF Len(full) < ChecksumSize THEN FALSE
    ELSE LET dataPart == SubSeq(full, 1, Len(full) - ChecksumSize)
             stored   == SubSeq(full, Len(full) - ChecksumSize + 1, Len(full))
         IN  Sha256(dataPart) = stored

(***************************************************************************)
(* The object store.                                                       *)
(***************************************************************************)
EmptyStore == [k \in {} |-> <<>>]

\* PutObject that leaves an existing object as it is.
Put_KeepExisting(st, key, body) ==
    [k \in (DOMAIN st) \cup {key} |->
        IF k \in DOMAIN st THEN st[k] ELSE body]

\* PutObject: create or overwrite.
Put(st, key, body) ==
    [k \in (DOMAIN st) \cup {key} |-> IF k = key THEN body ELSE st[k]]

\* The objects of keys removed.
Remove(st, keys) == [k \in (DOMAIN st) \ keys |-> st[k]]

RECURSIVE SortKeys(_)
SortKeys(S) ==
    IF S = {} THEN <<>>
    ELSE LET m == CHOOSE x \in S : \A y \in S \ {x} : LexLess(x, y)
         IN  <<m>> \o SortKeys(S \ {m})

\* ListObjectsV2 with Prefix = prefix + "/": the keys under the prefix in
\* lexicographic order.
ListKeys(st) ==
    SortKeys({k \in DOMAIN st : HasPrefix(k, Prefix \o <<Slash>>)})

\* The pages the paginator returns: PageSize keys each, one empty page for
\* an empty listing.
RECURSIVE Pages(_)
Pages(keys) ==
    IF Len(keys) <= PageSize THEN <<keys>>
    ELSE <<SubSeq(keys, 1, PageSize)>>
         \o Pages(SubSeq(keys, PageSize + 1, Len(keys)))

(***************************************************************************)
(* Faults.  A call returns at the first store call that fails, so a call   *)
(* meets at most one fault: the PutObject ("put"), the GetObject ("get"),  *)
(* the at-th list page ("list"), the at-th DeleteObjects call as a whole   *)
(* ("delete"), or the keys at positions pos of the at-th DeleteObjects     *)
(* call ("partial").                                                       *)
(***************************************************************************)
NoFault == [kind |-> "none", at |-> 0, pos |-> {}]

PutFault == [kind |-> "put", at |-> 1, pos |-> {}]

GetFault == [kind |-> "get", at |-> 1, pos |-> {}]

\* The list pages a call on store st can ask for.
ListCalls(st) == 1..Len(Pages(ListKeys(st)))

\* The DeleteObjects calls a Truncate on store st can make.
DeleteCalls(st) == 1..((Len(ListKeys(st)) + BatchLimit - 1) \div BatchLimit)

ListFaults(st) == {[kind |-> "list", at |-> a, pos |-> {}] : a \in ListCalls(st)}

\* The faults that can hit a Truncate on store st.
TruncateFaults(st) ==
    {NoFault}
    \cup ListFaults(st)
    \cup {[kind |-> "delete", at |-> a, pos |-> {}] : a \in DeleteCalls(st)}
    \cup {[kind |-> "partial", at |-> a, pos |-> P] :
            a \in DeleteCalls(st), P \in (SUBSET (1..BatchLimit)) \ {{}}}

(***************************************************************************)
(* Results of the engine's operations: the store and the cached length     *)
(* after the call, the error, the returned offset and Record, the offset   *)
(* the call tried to write and the delete batches it issued.               *)
(***************************************************************************)
NoRecord == [offset |-> 0, data |-> <<>>]

Result(st, len, err, off, rec, tried) ==
    [store |-> st, length |-> len, err |-> err, off |-> off, rec |-> rec,
     tried |-> tried]

\* w.length + 1 on the unsigned offset type.
NextOffset(len) == (len + 1) % (UintMax + 1)

\* Append that forgets to bump the cached length.
AppendRes_NoBump(len, st, data, fault) ==
    LET next == NextOffset(len)
        body == prepareBody(next, data)
    IN  IF fault.kind = "put"
        THEN Result(st, len, "StoreWriteFailed", 0, NoRecord, next)
        ELSE Result(Put(st, getObjectKey(next), body), len, "none", next,
                    NoRecord, next)

\* Append that bumps the cached length before the store write.
AppendRes_BumpFirst(len, st, data, fault) ==
    LET next == NextOffset(len)
        body == prepareBody(next, data)
    IN  IF fault.kind = "put"
        THEN Result(st, next, "StoreWriteFailed", 0, NoRecord, next)
        ELSE Result(Put(st, getObjectKey(next), body), next, "none", next,
                    NoRecord, next)

AppendRes(len, st, data, fault) ==
    LET next == NextOffset(len)
        body == prepareBody(next, data)
    IN  IF fault.kind = "put"
        THEN Result(st, len, "StoreWriteFailed", 0, NoRecord, next)
        ELSE Result(Put(st, getObjectKey(next), body), next, "none", next,
                    NoRecord, next)

ReadRes(len, st, offset, fault) ==
    LET key == getObjectKey(offset)
    IN  IF fault.kind = "get"
        THEN Result(st, len, "StoreReadFailed", 0, NoRecord, 0)
        ELSE IF key \notin DOMAIN st
        THEN Result(st, len, "NotFound", 0, NoRecord, 0)
        ELSE LET data == st[key]
                 storedOffset == BigEndian(SubSeq(data, 1, OffsetSize))
             IN  IF Len(data) < OffsetSize + ChecksumSize
                 THEN Result(st, len, "Truncated", 0, NoRecord, 0)
                 ELSE IF storedOffset # offset
                 THEN Result(st, len, "OffsetMismatch", 0, NoRecord, 0)
                 ELSE IF ~validateChecksum(data)
                 THEN Result(st, len, "ChecksumMismatch", 0, NoRecord, 0)
                 ELSE Result(st, len, "none", 0,
                             [offset |-> storedOffset,
                              data |-> SubSeq(data, OffsetSize + 1,
                                              Len(data) - ChecksumSize)],
                             0)

\* The last key of the last non-empty page; <<>> is the empty string.
RECURSIVE LastKeyOfPages(_, _, _)
LastKeyOfPages(pages, p, lastKey) ==
    IF p > Len(pages) THEN lastKey
    ELSE LastKeyOfPages(pages, p + 1,
            IF Len(pages[p]) > 0 THEN pages[p][Len(pages[p])] ELSE lastKey)

LastRecordRes(len, st, fault) ==
    LET pages   == Pages(ListKeys(st))
        lastKey == LastKeyOfPages(pages, 1, <<>>)
        dec     == getOffsetFromKey(lastKey)
    IN  IF fault.kind = "list" /\ fault.at \in 1..Len(pages)
        THEN Result(st, len, "StoreListFailed", 0, NoRecord, 0)
        ELSE IF lastKey = <<>>
        THEN Result(st, 0, "EmptyLog", 0, NoRecord, 0)
        ELSE IF ~dec.ok
        THEN Result(st, len, "MalformedKey", 0, NoRecord, 0)
        ELSE ReadRes(dec.v, st, dec.v, fault)

\* The greatest offset decoded from the keys of the pages from page p on.
RECURSIVE MaxOffsetOfPages(_, _, _, _)
MaxOffsetOfPages(pages, p, i, maxOffset) ==
    IF p > Len(pages) THEN maxOffset
    ELSE IF i > Len(pages[p]) THEN MaxOffsetOfPages(pages, p + 1, 1, maxOffset)
    ELSE LET dec == getOffsetFromKey(pages[p][i])
         IN  MaxOffsetOfPages(pages, p, i + 1,
                IF dec.ok /\ dec.v > maxOffset THEN dec.v ELSE maxOffset)

\* Recover that gives up at the first key it cannot decode.
RecoverRes_Strict(len, st, fault) ==
    LET pages     == Pages(ListKeys(st))
        maxOffset == MaxOffsetOfPages(pages, 1, 1, 0)
    IN  IF fault.kind = "list" /\ fault.at \in 1..Len(pages)
        THEN Result(st, len, "StoreListFailed", 0, NoRecord, 0)
        ELSE IF \E k \in DOMAIN st : ~getOffsetFromKey(k).ok
        THEN Result(st, len, "MalformedKey", 0, NoRecord, 0)
        ELSE Result(st, maxOffset, "none", maxOffset, NoRecord, 0)

\* Recover that reads the first page of the listing only.
RecoverRes_FirstPage(len, st, fault) ==
    LET pages     == Pages(ListKeys(st))
        maxOffset == MaxOffsetOfPages(<<pages[1]>>, 1, 1, 0)
    IN  IF fault.kind = "list" /\ fault.at \in 1..Len(pages)
        THEN Result(st, len, "StoreListFailed", 0, NoRecord, 0)
        ELSE Result(st, maxOffset, "none", maxOffset, NoRecord, 0)

RecoverRes(len, st, fault) ==
    LET pages     == Pages(ListKeys(st))
        maxOffset == MaxOffsetOfPages(pages, 1, 1, 0)
    IN  IF fault.kind = "list" /\ fault.at \in 1..Len(pages)
        THEN Result(st, len, "StoreListFailed", 0, NoRecord, 0)
        ELSE Result(st, maxOffset, "none", maxOffset, NoRecord, 0)

(***************************************************************************)
(* Truncate.                                                               *)
(***************************************************************************)
\* The b-th DeleteObjects call of a Truncate, for the keys of the batch.
batchDelete(st, keys, b, fault) ==
    IF Len(keys) = 0 THEN [store |-> st, err |-> "none"]
    ELSE IF fault.kind = "delete" /\ fault.at = b
    THEN [store |-> st, err |-> "StoreDeleteFailed"]
    ELSE LET failed == IF fault.kind = "partial" /\ fault.at = b
                       THEN {keys[i] : i \in fault.pos \cap (1..Len(keys))}
                       ELSE {}
             gone   == {keys[i] : i \in 1..Len(keys)} \ failed
         IN  [store |-> Remove(st, gone),
              err   |-> IF failed # {} THEN "PartialDeleteFailure" ELSE "none"]

\* Truncate's test of a listed offset, off by one.
ShouldDelete_Geq(offset, afterOffset) == offset >= afterOffset

\* Truncate's test of a listed offset.
ShouldDelete(offset, afterOffset) == offset > afterOffset

\* Truncate's test for sending the collected keys, one key late.
BatchFull_Late(keysToDelete) == Len(keysToDelete) = BatchLimit + 1

\* Truncate's test for sending the collected keys.
BatchFull(keysToDelete) == Len(keysToDelete) = BatchLimit

\* The paginator loop of Truncate from key i of page p on; c holds the keys
\* collected for the next batch, the batches issued and the store.
RECURSIVE TruncateScan(_, _, _, _, _, _)
TruncateScan(pages, p, i, c, afterOffset, fault) ==
    IF p > Len(pages) THEN c
    ELSE IF i = 1 /\ fault.kind = "list" /\ fault.at = p
    THEN [c EXCEPT !.err = "StoreListFailed"]
    ELSE IF i > Len(pages[p])
    THEN TruncateScan(pages, p + 1, 1, c, afterOffset, fault)
    ELSE LET key == pages[p][i]
             dec == getOffsetFromKey(key)
             keysToDelete == IF ShouldDelete(dec.v, afterOffset)
                             THEN Append(c.keysToDelete, key)
                             ELSE c.keysToDelete
             del == batchDelete(c.store, keysToDelete, Len(c.batches) + 1, fault)
         IN  IF ~dec.ok
             THEN TruncateScan(pages, p, i + 1, c, afterOffset, fault)
             ELSE IF BatchFull(keysToDelete)
             THEN IF del.err # "none"
                  THEN [keysToDelete |-> keysToDelete,
                        batches |-> Append(c.batches, keysToDelete),
                        store |-> del.store, err |-> del.err]
                  ELSE TruncateScan(pages, p, i + 1,
                          [keysToDelete |-> <<>>,
                           batches |-> Append(c.batches, keysToDelete),
                           store |-> del.store, err |-> "none"],
                          afterOffset, fault)
             ELSE TruncateScan(pages, p, i + 1,
                     [c EXCEPT !.keysToDelete = keysToDelete],
                     afterOffset, fault)

\* The store, the error and the batches of a Truncate up to, not including,
\* its update of the cached length.
TruncateDeletes(st, afterOffset, fault) ==
    LET scan == TruncateScan(Pages(ListKeys(st)), 1, 1,
                    [keysToDelete |-> <<>>, batches |-> <<>>, store |-> st,
                     err |-> "none"],
                    afterOffset, fault)
        del  == batchDelete(scan.store, scan.keysToDelete,
                            Len(scan.batches) + 1, fault)
    IN  IF scan.err # "none" THEN scan
        ELSE IF Len(scan.keysToDelete) > 0
        THEN [keysToDelete |-> scan.keysToDelete,
              batches |-> Append(scan.batches, scan.keysToDelete),
              store |-> del.store, err |-> del.err]
        ELSE scan

\* Truncate that updates the cached length whatever the deletes returned.
TruncateRes_AlwaysSets(len, st, afterOffset, fault) ==
    LET d == TruncateDeletes(st, afterOffset, fault)
    IN  Result(d.store, afterOffset, d.err, 0, NoRecord, 0)

TruncateRes(len, st, afterOffset, fault) ==
    LET d == TruncateDeletes(st, afterOffset, fault)
    IN  IF d.err # "none"
        THEN Result(d.store, len, d.err, 0, NoRecord, 0)
        ELSE Result(d.store, IF afterOffset = 0 THEN 0 ELSE afterOffset,
                    "none", 0, NoRecord, 0)

(***************************************************************************)
(* State.  store and length are the program's state; last, rets, pure and  *)
(* nops record the calls made: last is the last call with its arguments,   *)
(* the fault it met, its results and the state it started from; rets is    *)
(* the offsets returned while every call so far was a successful Append    *)
(* (pure); clean says that no call so far returned an error.               *)
(* wal, th and writes belong to the specifications with several threads    *)
(* further down; they are empty where one caller acts at a time.           *)
(***************************************************************************)
NoCall ==
    [op |-> "none", arg |-> 0, data |-> <<>>, fault |-> NoFault,
     err |-> "none", off |-> 0,
     rec |-> NoRecord, tried |-> 0, len0 |-> 0, store0 |-> EmptyStore,
     napp0 |-> 0]

\* NewS3WAL on an empty prefix: the cached length is 0.
Init ==
    /\ store = EmptyStore
    /\ length = 0
    /\ last = NoCall
    /\ rets = <<>>
    /\ pure = TRUE
    /\ clean = TRUE
    /\ nops = 0
    /\ wal = <<>>
    /\ th = <<>>
    /\ writes = <<>>

\* A call op(arg, data) that meets fault, made by an engine whose cached
\* length is len0, with result r.
Call(op, arg, data, fault, len0, r) ==
    /\ nops < MaxOps
    /\ nops' = nops + 1
    /\ store' = r.store
    /\ length' = r.length
    /\ last' = [op |-> op, arg |-> arg, data |-> data, fault |-> fault,
                err |-> r.err,
                off |-> r.off, rec |-> r.rec, tried |-> r.tried,
                len0 |-> len0, store0 |-> store,
                napp0 |-> IF pure THEN Len(rets) ELSE -1]
    /\ pure' = (pure /\ op = "Append" /\ r.err = "none")
    /\ clean' = (clean /\ r.err = "none")
    /\ rets' = IF pure' THEN Append(rets, r.off) ELSE <<>>
    /\ UNCHANGED <<wal, th, writes>>

(***************************************************************************)
(* The calls of one engine instance, one caller at a time.                 *)
(***************************************************************************)
DoAppend ==
    \E data \in Data, fault \in {NoFault, PutFault} :
        Call("Append", 0, data, fault, length,
             AppendRes(length, store, data, fault))

DoRead ==
    \E offset \in ReadOffsets, fault \in {NoFault, GetFault} :
        Call("Read", offset, <<>>, fault, length,
             ReadRes(length, store, offset, fault))

DoLastRecord ==
    \E fault \in {NoFault, GetFault} \cup ListFaults(store) :
        Call("LastRecord", 0, <<>>, fault, length,
             LastRecordRes(length, store, fault))

DoRecover ==
    \E fault \in {NoFault} \cup ListFaults(store) :
        Call("Recover", 0, <<>>, fault, length,
             RecoverRes(length, store, fault))

DoTruncate ==
    \E afterOffset \in AfterOffsets, fault \in TruncateFaults(store) :
        Call("Truncate", afterOffset, <<>>, fault, length,
             TruncateRes(length, store, afterOffset, fault))

Next == DoAppend \/ DoRead \/ DoLastRecord \/ DoRecover \/ DoTruncate

Spec == Init /\ [][Next]_vars

(***************************************************************************)
(* The command-line tool: every invocation is a new process that builds a  *)
(* new engine with NewS3WAL (cached length 0), runs one command and exits. *)
(***************************************************************************)
\* The length field NewS3WAL sets.
NewLength == 0

CliAppend ==
    \E data \in Data, fault \in {NoFault, PutFault} :
        Call("Append", 0, data, fault, NewLength,
             AppendRes(NewLength, store, data, fault))

CliRead ==
    \E offset \in ReadOffsets, fault \in {NoFault, GetFault} :
        Call("Read", offset, <<>>, fault, NewLength,
             ReadRes(NewLength, store, offset, fault))

CliLast ==
    \E fault \in {NoFault, GetFault} \cup ListFaults(store) :
        Call("LastRecord", 0, <<>>, fault, NewLength,
             LastRecordRes(NewLength, store, fault))

CliRecover ==
    \E fault \in {NoFault} \cup ListFaults(store) :
        Call("Recover", 0, <<>>, fault, NewLength,
             RecoverRes(NewLength, store, fault))

CliTruncate ==
    \E afterOffset \in AfterOffsets, fault \in TruncateFaults(store) :
        Call("Truncate", afterOffset, <<>>, fault, NewLength,
             TruncateRes(NewLength, store, afterOffset, fault))

NextCli == CliAppend \/ CliRead \/ CliLast \/ CliRecover \/ CliTruncate

SpecCli == Init /\ [][NextCli]_vars

(***************************************************************************)
(* One call on a prefix that other writers share: the prefix holds the     *)
(* records 1..n and any of the stray objects below, and the engine's       *)
(* cached length is 0 (new) or n (recovered earlier).                      *)
(***************************************************************************)
\* Most records the prefix holds at the start.
MaxRecords == 3

\* "w/abc": the suffix is no number.
KeyLetters == Prefix \o <<Slash, 97, 98, 99>>

\* "w/5": a number that is not zero-padded.
KeyUnpadded == Prefix \o <<Slash, 53>>

\* "w/sub/": nothing after the last separator.
KeyNoSuffix == Prefix \o <<Slash, 115, 117, 98, Slash>>

\* "w/sub/00000000000000000009": a padded number one level down.
KeyNested == Prefix \o <<Slash, 115, 117, 98, Slash>> \o PadDecimal(9, KeyDigits)

\* "w/99": a number above the largest offset.
KeyTooBig == Prefix \o <<Slash, 57, 57>>

StrayKeys == {KeyLetters, KeyUnpadded, KeyNoSuffix, KeyNested, KeyTooBig}

\* The data of the record at offset i at the start.
RecordData(i) == <<64 + i>>

\* The records 1..n and the stray objects of keys strays; a stray object
\* is a copy of a record under another name.
SharedPrefix(n, strays) ==
    [k \in {getObjectKey(i) : i \in 1..n} \cup strays |->
        IF k \in strays THEN prepareBody(5, <<65, 66>>)
        ELSE LET i == CHOOSE j \in 1..n : getObjectKey(j) = k
             IN  prepareBody(i, RecordData(i))]

InitStray ==
    /\ \E n \in 0..MaxRecords, strays \in SUBSET StrayKeys :
          /\ store = SharedPrefix(n, strays)
          /\ length \in {0, n}
    /\ last = NoCall
    /\ rets = <<>>
    /\ pure = FALSE
    /\ clean = TRUE
    /\ nops = MaxOps - 1
    /\ wal = <<>>
    /\ th = <<>>
    /\ writes = <<>>

SpecStray == InitStray /\ [][Next]_vars

(***************************************************************************)
(* Several threads.  wal[e] is the S3WAL instance e (its mutex mu, 0 when  *)
(* free, else the thread holding it, and its cached length); th[t] is the  *)
(* call thread t makes on instance th[t].eng and how far it got; writes is *)
(* the order in which the threads' PutObject calls reached the store.      *)
(* Every store call is one step; store calls succeed.                      *)
(***************************************************************************)
\* Number of threads.
NumThreads == 2

Threads == 1..NumThreads

\* Two instances on the same prefix (two processes), or one.
Engines == {1, 2}

\* The data thread t appends.
ThreadData(t) == <<96 + t>>

\* The records 1..n.
Records(n) == SharedPrefix(n, {})

NewThread(e, op, arg, data) ==
    [pc |-> IF op = "Append" THEN "start" ELSE "list",
     eng |-> e, op |-> op, arg |-> arg, data |-> data,
     len0 |-> 0, next |-> 0, ret |-> 0,
     page |-> <<>>, token |-> <<>>, more |-> TRUE, keysToDelete |-> <<>>]

\* w.mu.Lock() returns only while no thread holds the mutex; the mutant
\* lets it return at once.
CanLock_Always(e) == TRUE

CanLock(e) == wal[e].mu = 0

Done(t) == th[t].pc = "done"

AllDone == \A t \in Threads : Done(t)

\* Append, line by line.
AppLock(t) ==
    /\ th[t].op = "Append" /\ th[t].pc = "start"
    /\ CanLock(th[t].eng)
    /\ wal' = [wal EXCEPT ![th[t].eng].mu = t]
    /\ th' = [th EXCEPT ![t].pc = "locked"]
    /\ UNCHANGED <<store, writes>>

AppNext(t) ==
    /\ th[t].op = "Append" /\ th[t].pc = "locked"
    /\ th' = [th EXCEPT ![t].pc = "ready",
                        ![t].len0 = wal[th[t].eng].length,
                        ![t].next = NextOffset(wal[th[t].eng].length)]
    /\ UNCHANGED <<store, wal, writes>>

AppPut(t) ==
    /\ th[t].op = "Append" /\ th[t].pc = "ready"
    /\ store' = Put(store, getObjectKey(th[t].next),
                    prepareBody(th[t].next, th[t].data))
    /\ writes' = Append(writes, t)
    /\ th' = [th EXCEPT ![t].pc = "written"]
    /\ UNCHANGED wal

AppBump(t) ==
    /\ th[t].op = "Append" /\ th[t].pc = "written"
    /\ wal' = [wal EXCEPT ![th[t].eng].length = th[t].next]
    /\ th' = [th EXCEPT ![t].pc = "bumped", ![t].ret = th[t].next]
    /\ UNCHANGED <<store, writes>>

AppReturn(t) ==
    /\ th[t].op = "Append" /\ th[t].pc = "bumped"
    /\ wal' = [wal EXCEPT ![th[t].eng].mu =
                  IF wal[th[t].eng].mu = t THEN 0 ELSE wal[th[t].eng].mu]
    /\ th' = [th EXCEPT ![t].pc = "done"]
    /\ UNCHANGED <<store, writes>>

AppendStep(t) ==
    AppLock(t) \/ AppNext(t) \/ AppPut(t) \/ AppBump(t) \/ AppReturn(t)

Ghosts == <<length, last, rets, pure, clean, nops>>

\* Threads of one or two instances, all appending; the prefix holds the
\* records 1..n and every instance has recovered the length n.
InitAppend ==
    /\ \E n \in 0..MaxRecords :
          /\ store = Records(n)
          /\ wal = [e \in Engines |-> [mu |-> 0, length |-> n]]
          /\ last = [NoCall EXCEPT !.store0 = Records(n), !.len0 = n]
    /\ \E engs \in [Threads -> Engines] :
          th = [t \in Threads |-> NewThread(engs[t], "Append", 0, ThreadData(t))]
    /\ writes = <<>>
    /\ length = 0
    /\ rets = <<>>
    /\ pure = FALSE
    /\ clean = TRUE
    /\ nops = 0

NextAppend == (\E t \in Threads : AppendStep(t)) /\ UNCHANGED Ghosts

SpecAppend == InitAppend /\ [][NextAppend]_vars

\* Truncate's loop over the keys of the page held, up to the next store
\* call: it stops when the batch is full or the page is used up.
RECURSIVE Fill(_, _, _)
Fill(keysToDelete, page, afterOffset) ==
    IF page = <<>> \/ BatchFull(keysToDelete)
    THEN [keys |-> keysToDelete, page |-> page]
    ELSE LET d == getOffsetFromKey(Head(page))
         IN  Fill(IF d.ok /\ ShouldDelete(d.v, afterOffset)
                  THEN Append(keysToDelete, Head(page))
                  ELSE keysToDelete,
                  Tail(page), afterOffset)

\* Thread record r of a Truncate moved on to its next store or mutex call.
Advance(r) ==
    LET f == Fill(r.keysToDelete, r.page, r.arg)
    IN  [r EXCEPT !.keysToDelete = f.keys,
                  !.page = f.page,
                  !.pc = IF BatchFull(f.keys) THEN "delete"
                         ELSE IF r.more THEN "list"
                         ELSE IF Len(f.keys) > 0 THEN "delete"
                         ELSE "lock"]

\* paginator.NextPage: the next PageSize keys of the prefix after the last
\* key listed, as the store holds them now.
TrList(t) ==
    /\ th[t].op = "Truncate" /\ th[t].pc = "list"
    /\ LET rest == SelectSeq(ListKeys(store),
                             LAMBDA k : LexLess(th[t].token, k))
           page == IF Len(rest) <= PageSize THEN rest
                   ELSE SubSeq(rest, 1, PageSize)
       IN  th' = [th EXCEPT ![t] = Advance(
                     [th[t] EXCEPT !.page = page,
                                   !.more = Len(rest) > PageSize,
                                   !.token = IF page = <<>> THEN th[t].token
                                             ELSE page[Len(page)]])]
    /\ UNCHANGED <<store, wal, writes>>

TrDelete(t) ==
    /\ th[t].op = "Truncate" /\ th[t].pc = "delete"
    /\ store' = batchDelete(store, th[t].keysToDelete, 0, NoFault).store
    /\ th' = [th EXCEPT ![t] = Advance([th[t] EXCEPT !.keysToDelete = <<>>])]
    /\ UNCHANGED <<wal, writes>>

TrLock(t) ==
    /\ th[t].op = "Truncate" /\ th[t].pc = "lock"
    /\ CanLock(th[t].eng)
    /\ wal' = [wal EXCEPT ![th[t].eng].mu = t]
    /\ th' = [th EXCEPT ![t].pc = "set"]
    /\ UNCHANGED <<store, writes>>

TrSet(t) ==
    /\ th[t].op = "Truncate" /\ th[t].pc = "set"
    /\ wal' = [wal EXCEPT ![th[t].eng].length =
                  IF th[t].arg = 0 THEN 0 ELSE th[t].arg]
    /\ th' = [th EXCEPT ![t].pc = "unlock"]
    /\ UNCHANGED <<store, writes>>

TrUnlock(t) ==
    /\ th[t].op = "Truncate" /\ th[t].pc = "unlock"
    /\ wal' = [wal EXCEPT ![th[t].eng].mu = 0]
    /\ th' = [th EXCEPT ![t].pc = "done"]
    /\ UNCHANGED <<store, writes>>

TruncateStep(t) ==
    TrList(t) \/ TrDelete(t) \/ TrLock(t) \/ TrSet(t) \/ TrUnlock(t)

\* One instance; thread 1 truncates, the other threads append.
InitTruncate ==
    /\ \E n \in 0..MaxRecords :
          /\ store = Records(n)
          /\ wal = [e \in Engines |-> [mu |-> 0, length |-> n]]
          /\ last = [NoCall EXCEPT !.store0 = Records(n), !.len0 = n]
    /\ \E k \in 0..MaxAfter :
          th = [t \in Threads |->
                   IF t = 1 THEN NewThread(1, "Truncate", k, <<>>)
                   ELSE NewThread(1, "Append", 0, ThreadData(t))]
    /\ writes = <<>>
    /\ length = 0
    /\ rets = <<>>
    /\ pure = FALSE
    /\ clean = TRUE
    /\ nops = 0

NextTruncate ==
    (\E t \in Threads : AppendStep(t) \/ TruncateStep(t)) /\ UNCHANGED Ghosts

SpecTruncate == InitTruncate /\ [][NextTruncate]_vars

(***************************************************************************)
(* Corruption at rest: one byte of a stored object that Read accepts is    *)
(* replaced by a different byte.                                           *)
(***************************************************************************)
CorruptBytes == {0, 1, 2, 66, 255}

\* Body with the byte at position pos replaced by b.
Tamper(body, pos, b) == [body EXCEPT ![pos] = b]

Corrupt ==
    \E offset \in 1..MaxRecords :
        /\ ReadRes(length, store, offset, NoFault).err = "none"
        /\ LET key  == getObjectKey(offset)
               body == store[key]
           IN  \E pos \in 1..Len(body) :
                \E b \in CorruptBytes \ {body[pos]} :
                  Call("Corrupt", offset, <<pos, b>>, NoFault, length,
                       Result(Put(store, key, Tamper(body, pos, b)), length,
                              "none", 0, NoRecord, 0))

\* An engine on an empty prefix with two calls to go.
InitCorrupt ==
    /\ store = EmptyStore
    /\ length = 0
    /\ last = NoCall
    /\ rets = <<>>
    /\ pure = TRUE
    /\ clean = TRUE
    /\ nops = MaxOps - 2
    /\ wal = <<>>
    /\ th = <<>>
    /\ writes = <<>>

NextCorrupt == DoAppend \/ Corrupt

SpecCorrupt == InitCorrupt /\ [][NextCorrupt]_vars

(***************************************************************************)
(* Framing on its own: prepareBody of an offset and a payload, stored      *)
(* under the offset's key and parsed back by Read.                         *)
(***************************************************************************)
\* Longest payload framed.
MaxLen == 2

FrameBytes == {0, 65, 255}

FrameData == UNION {[1..n -> FrameBytes] : n \in 0..MaxLen}

InitFrame ==
    /\ \E offset \in Uint64, data \in FrameData :
          last = [NoCall EXCEPT !.arg = offset, !.data = data]
    /\ store = EmptyStore
    /\ length = 0
    /\ rets = <<>>
    /\ pure = FALSE
    /\ clean = TRUE
    /\ nops = MaxOps - 1
    /\ wal = <<>>
    /\ th = <<>>
    /\ writes = <<>>

Frame ==
    /\ last.op = "none"
    /\ LET st == Put(store, getObjectKey(last.arg),
                     prepareBody(last.arg, last.data))
       IN  Call("Frame", last.arg, last.data, NoFault, length,
                ReadRes(length, st, last.arg, NoFault))

SpecFrame == InitFrame /\ [][Frame]_vars

(***************************************************************************)
(* The key functions on their own: two offsets are encoded, the first key  *)
(* is decoded again and the two keys are compared; a key that is no        *)
(* encoding of an offset is decoded too.                                   *)
(***************************************************************************)
\* No separator: "w", "00000000000000000001", "abc".
KeysNoSeparator == {<<119>>, PadDecimal(1, KeyDigits), <<97, 98, 99>>}

\* Nothing after the last separator: "w/", "w/sub/", "/".
KeysEmptySuffix == {Prefix \o <<Slash>>, KeyNoSuffix, <<Slash>>}

\* A suffix that is no unsigned decimal number:
\* "w/abc", "w/12a", "w/-1", "w/+1", "w/ 1", "w/1.0", "w/0x1".
KeysNotDecimal ==
    {KeyLetters,
     Prefix \o <<Slash, 49, 50, 97>>,
     Prefix \o <<Slash, 45, 49>>,
     Prefix \o <<Slash, 43, 49>>,
     Prefix \o <<Slash, 32, 49>>,
     Prefix \o <<Slash, 49, 46, 48>>,
     Prefix \o <<Slash, 48, 120, 49>>}

BadKeys == KeysNoSeparator \cup KeysEmptySuffix \cup KeysNotDecimal

InitKeys ==
    /\ \E a \in Uint64, b \in Uint64, k \in BadKeys :
          last = [NoCall EXCEPT !.arg = a, !.len0 = b, !.data = k]
    /\ store = EmptyStore
    /\ length = 0
    /\ rets = <<>>
    /\ pure = FALSE
    /\ clean = TRUE
    /\ nops = MaxOps - 1
    /\ wal = <<>>
    /\ th = <<>>
    /\ writes = <<>>

\* last.rec is the first key and the offset decoded from it, last.err says
\* whether it decoded, last.off whether the first key sorts before the
\* second, last.tried whether the other key decoded.
Keys ==
    /\ last.op = "none"
    /\ LET ka  == getObjectKey(last.arg)
           kb  == getObjectKey(last.len0)
           dec == getOffsetFromKey(ka)
       IN  Call("Keys", last.arg, last.data, NoFault, last.len0,
                Result(store, length,
                       IF dec.ok THEN "none" ELSE "MalformedKey",
                       IF LexLess(ka, kb) THEN 1 ELSE 0,
                       [offset |-> dec.v, data |-> ka],
                       IF getOffsetFromKey(last.data).ok THEN 1 ELSE 0))

SpecKeys == InitKeys /\ [][Keys]_vars

TypeOK ==
    /\ length \in Uint64
    /\ nops \in 0..MaxOps
    /\ \A k \in DOMAIN store : Len(store[k]) >= OffsetSize + ChecksumSize

(***************************************************************************)
(* Properties.                                                             *)
(***************************************************************************)
\* The offsets decoded from the keys of store st under the prefix.
StoredOffsets(st) ==
    {getOffsetFromKey(k).v :
        k \in {x \in DOMAIN st : HasPrefix(x, Prefix \o <<Slash>>)
                                 /\ getOffsetFromKey(x).ok}}

\* The greatest stored offset that is at most k, 0 when there is none.
MaxStoredUpTo(st, k) ==
    LET S == {o \in StoredOffsets(st) : o <= k}
    IN  IF S = {} THEN 0 ELSE CHOOSE m \in S : \A o \in S : o <= m

\* What a caller gets from the calls it makes next, every store call
\* succeeding.
ReadNow(offset) == ReadRes(length, store, offset, NoFault)

RecoverNow == RecoverRes(length, store, NoFault)

LastRecordNow == LastRecordRes(length, store, NoFault)

AppendNow(data) == AppendRes(length, store, data, NoFault)

Succeeded(op) == last.op = op /\ last.err = "none"

\* C1: N Appends of a single writer, starting from cached length 0 on an
\* empty prefix with every store write succeeding, return the offsets
\* 1, 2, ..., N in call order.
C1_AppendOffsets ==
    pure => /\ Len(rets) = nops
            /\ \A i \in 1..Len(rets) : rets[i] = i

C1_Witness == pure /\ Len(rets) >= 3 /\ last.data # <<>>

\* C2: a successful Append(data) returns the cached length before the call
\* plus one (on the unsigned offset type), and a Read of the returned offset
\* right afterwards succeeds and returns a Record with that offset and
\* exactly that data.
C2_AppendThenRead ==
    Succeeded("Append") =>
        /\ last.off = (last.len0 + 1) % (UintMax + 1)
        /\ ReadNow(last.off).err = "none"
        /\ ReadNow(last.off).rec = [offset |-> last.off, data |-> last.data]

C2_Witness ==
    /\ Succeeded("Append")
    /\ last.len0 >= 1
    /\ last.data # <<>>
    /\ ReadNow(last.off).rec.data = last.data

\* C3 as stated: Recover after N successful Appends returns N, and Recover
\* after a successful Truncate(k) returns k.
C3_RecoverReturnsK ==
    /\ Succeeded("Recover") /\ last.napp0 >= 0 => last.off = last.napp0
    /\ Succeeded("Truncate") => RecoverNow.off = last.arg

\* C3 amended: Recover after N successful Appends returns N, and Recover
\* after a successful Truncate(k) returns the greatest offset not above k
\* that was stored before the Truncate (0 if there is none), which is k
\* whenever a record at offset k was stored.
C3_RecoverAfter ==
    /\ Succeeded("Recover") /\ last.napp0 >= 0 => last.off = last.napp0
    /\ Succeeded("Truncate") =>
          /\ RecoverNow.err = "none"
          /\ RecoverNow.off = MaxStoredUpTo(last.store0, last.arg)
          /\ last.arg \in StoredOffsets(last.store0) => RecoverNow.off = last.arg

C3_Witness ==
    /\ Succeeded("Truncate")
    /\ last.arg >= 1
    /\ last.arg \in StoredOffsets(last.store0)
    /\ store # last.store0
    /\ RecoverNow.off = last.arg

\* C4: an append invocation of the command-line tool against a prefix that
\* holds the records 1..n stores the new record at offset n + 1 and leaves
\* the records 1..n unchanged.
C4_CliAppendContinues ==
    /\ Succeeded("Append")
    /\ StoredOffsets(last.store0) = 1..Cardinality(DOMAIN last.store0)
    => /\ last.off = Cardinality(DOMAIN last.store0) + 1
       /\ \A k \in DOMAIN last.store0 :
             k \in DOMAIN store /\ store[k] = last.store0[k]

\* C5: after a successful Truncate(k), Read(j) fails with NotFound for every
\* j > k, and Read(j) still succeeds with the data it had for every j <= k
\* that was stored before the Truncate.
C5_ReadAfterTruncate ==
    Succeeded("Truncate") =>
        \A j \in Uint64 :
            /\ j > last.arg => ReadNow(j).err = "NotFound"
            /\ j <= last.arg /\ getObjectKey(j) \in DOMAIN last.store0 =>
                  /\ ReadNow(j).err = "none"
                  /\ ReadNow(j).rec.offset = j
                  /\ ReadNow(j).rec
                        = ReadRes(last.len0, last.store0, j, NoFault).rec

C5_Witness ==
    /\ Succeeded("Truncate")
    /\ \E j \in Uint64 :
          j > last.arg /\ getObjectKey(j) \in DOMAIN last.store0
    /\ \E j \in Uint64 :
          /\ j <= last.arg
          /\ getObjectKey(j) \in DOMAIN last.store0
          /\ ReadNow(j).rec.data # <<>>

\* C6: after a successful Truncate(0) on a log of any length, Recover
\* returns 0, LastRecord fails with EmptyLog and leaves the cached length at
\* 0, and the next Append returns offset 1.
C6_TruncateZeroEmpties ==
    Succeeded("Truncate") /\ last.arg = 0 =>
        /\ RecoverNow.off = 0
        /\ LastRecordNow.err = "EmptyLog"
        /\ LastRecordNow.length = 0
        /\ \A d \in Data : AppendNow(d).off = 1

\* C7: after any sequence of successful calls of a single writer starting
\* from an empty prefix, the stored offsets are 1..m without gaps and the
\* next Append writes at cached length + 1 = m + 1.
C7_Contiguous ==
    clean =>
        \E m \in Uint64 :
            /\ StoredOffsets(store) = 1..m
            /\ length = m
            /\ \A d \in Data : AppendNow(d).tried = m + 1

\* C8: the object stored at an offset is never rewritten while it exists:
\* a call changes the content at a key only from absent to present or from
\* present to absent.
C8_NeverRewritten ==
    \A k \in (DOMAIN store) \cap (DOMAIN last.store0) :
        store[k] = last.store0[k]

\* C9: if the store write of an Append fails, the call returns an error,
\* the cached length and the store are unchanged, and the next Append
\* attempt uses the offset of the failed one.
C9_FailedAppend ==
    last.op = "Append" /\ last.fault.kind = "put" =>
        /\ last.err # "none"
        /\ length = last.len0
        /\ store = last.store0
        /\ \A d \in Data : AppendNow(d).tried = last.tried

C9_Witness ==
    /\ last.op = "Append"
    /\ last.fault.kind = "put"
    /\ last.err = "StoreWriteFailed"
    /\ last.len0 >= 1
    /\ AppendNow(<<>>).off = last.tried

\* The last call is a Truncate one of whose DeleteObjects calls failed, as a
\* whole or for some of its keys.
FailedBatch ==
    /\ last.op = "Truncate"
    /\ last.fault.kind \in {"delete", "partial"}
    /\ LET d == TruncateDeletes(last.store0, last.arg, NoFault)
       IN  /\ last.fault.at <= Len(d.batches)
           /\ last.fault.kind = "partial" =>
                 last.fault.pos \cap (1..Len(d.batches[last.fault.at])) # {}

\* C10: if Truncate fails because a DeleteObjects call fails or because the
\* store reports per-key errors in a batch, Truncate returns an error and
\* the cached length keeps the value it had before the call, also when
\* earlier batches of the same Truncate were deleted.
C10_FailedTruncateKeepsLength ==
    FailedBatch =>
        /\ last.err \in {"StoreDeleteFailed", "PartialDeleteFailure"}
        /\ length = last.len0

C10_Witness ==
    /\ FailedBatch
    /\ last.fault.at >= 2
    /\ store # last.store0
    /\ last.len0 # last.arg
    /\ length = last.len0

\* The keys the listing of store st returns.
Listed(st) == {k \in DOMAIN st : HasPrefix(k, Prefix \o <<Slash>>)}

\* C11: for any keys under the prefix, also keys that decode to no offset,
\* Recover succeeds whenever the listing succeeds, skips the undecodable
\* keys, sets the cached length to the greatest decoded offset (0 if there
\* is none) and returns it; it fails only when a list call fails, and then
\* the cached length is unchanged.
C11_RecoverTolerant ==
    last.op = "Recover" =>
        IF last.fault.kind = "list"
        THEN last.err = "StoreListFailed" /\ length = last.len0
        ELSE /\ last.err = "none"
             /\ last.off = MaxStoredUpTo(last.store0, UintMax)
             /\ length = last.off

C11_Witness ==
    /\ Succeeded("Recover")
    /\ \E k \in Listed(last.store0) : ~getOffsetFromKey(k).ok
    /\ last.off >= 1
    /\ last.len0 # last.off
    /\ length = last.off

\* The lexicographically greatest key of set S.
GreatestKey(S) == CHOOSE g \in S : \A k \in S \ {g} : LexLess(k, g)

\* C12: for any contents of the prefix over any number of pages, stray keys
\* included, LastRecord selects the greatest key that decodes to an offset,
\* sets the cached length to its offset and returns the record read at that
\* offset, which is the record with the numerically greatest offset.
C12_LastRecordGreatestValid ==
    LET valid == {k \in Listed(last.store0) : getOffsetFromKey(k).ok}
        o     == getOffsetFromKey(GreatestKey(valid)).v
    IN  last.op = "LastRecord" /\ last.fault = NoFault /\ valid # {} =>
            /\ length = o
            /\ last.err = "none"
            /\ last.rec.offset = o
            /\ o = MaxStoredUpTo(last.store0, UintMax)

\* C13: Read(0) fails with NotFound in every state the engine's calls reach
\* from an empty prefix: no Append assigns or writes offset 0, also after
\* Truncate with the largest afterOffset.
C13_ReadZeroNotFound ==
    /\ ReadNow(0).err = "NotFound"
    /\ last.op = "Append" => last.tried # 0

\* Every thread calls the same instance.
SameEngine == \A t, u \in Threads : th[t].eng = th[u].eng

\* What a Read of offset finds in the store now.
ObjectAt(offset) == ReadRes(0, store, offset, NoFault)

\* C14: m threads of one process append concurrently on one engine whose
\* cached length is len, every write succeeding: the offsets returned are
\* pairwise distinct, they are exactly len+1 .. len+m, and the object at
\* each returned offset holds the data of the call that returned it.
C14_ConcurrentAppends ==
    SameEngine =>
        /\ \A t, u \in Threads :
              Done(t) /\ Done(u) /\ t # u => th[t].ret # th[u].ret
        /\ \A t \in Threads :
              Done(t) =>
                 /\ th[t].ret \in (last.len0 + 1)..(last.len0 + NumThreads)
                 /\ ObjectAt(th[t].ret).err = "none"
                 /\ ObjectAt(th[t].ret).rec = [offset |-> th[t].ret,
                                               data |-> th[t].data]
        /\ AllDone =>
              {th[t].ret : t \in Threads} =
                  (last.len0 + 1)..(last.len0 + NumThreads)

C14_Witness ==
    /\ SameEngine /\ AllDone /\ last.len0 >= 1
    /\ writes[1] # 1

\* The thread whose PutObject on the key of offset reached the store last.
LastWriter(offset) ==
    LET idx == {i \in 1..Len(writes) : th[writes[i]].next = offset}
    IN  writes[CHOOSE i \in idx : \A j \in idx : j <= i]

\* C18: two engine instances on one prefix that hold the same cached
\* length both append: both calls succeed and return the same offset, the
\* write that reaches the store later replaces the earlier one, and a Read
\* of that offset returns the later call's data, not the earlier call's.
C18_TwoInstances ==
    \A t, u \in Threads :
        /\ t # u /\ Done(t) /\ Done(u)
        /\ th[t].eng # th[u].eng
        /\ th[t].len0 = th[u].len0
        => /\ th[t].ret = NextOffset(th[t].len0)
           /\ th[u].ret = th[t].ret
           /\ LastWriter(th[t].ret) \in {t, u}
           /\ ObjectAt(th[t].ret).err = "none"
           /\ ObjectAt(th[t].ret).rec.data = th[LastWriter(th[t].ret)].data
           /\ \E x \in {t, u} : th[x].data # ObjectAt(th[t].ret).rec.data

C18_Witness ==
    /\ AllDone /\ th[1].eng # th[2].eng /\ th[1].len0 = th[2].len0
    /\ th[1].ret = th[2].ret /\ th[1].len0 >= 1
    /\ writes[1] = 2 /\ writes[2] = 1
    /\ ObjectAt(th[1].ret).rec.data = ThreadData(1)

\* The threads in some order.
Orders == {o \in [1..NumThreads -> Threads] : \A i, j \in 1..NumThreads :
                                                  o[i] = o[j] => i = j}

\* The calls of the threads made one after the other in the order o, from
\* call i on, starting with store st and cached length len.
RECURSIVE SeqRun(_, _, _, _)
SeqRun(o, i, st, len) ==
    IF i > NumThreads THEN [store |-> st, length |-> len]
    ELSE LET c == th[o[i]]
             r == IF c.op = "Append" THEN AppendRes(len, st, c.data, NoFault)
                  ELSE TruncateRes(len, st, c.arg, NoFault)
         IN  SeqRun(o, i + 1, r.store, r.length)

\* C15: Append and Truncate on one engine are concurrency-safe: once a
\* Truncate(k) and the Appends running with it have all returned, the store
\* and the cached length are those of the same calls made one after the
\* other in some order, and no object is left above the cached length.
C15_TruncateWithAppends ==
    AllDone /\ (\E t \in Threads : th[t].op = "Truncate") =>
        /\ \E o \in Orders :
              SeqRun(o, 1, last.store0, last.len0) =
                  [store |-> store, length |-> wal[1].length]
        /\ \A off \in StoredOffsets(store) : off <= wal[1].length

\* C16: with a collision-free checksum, changing any single byte of a
\* stored record (in its first 8 bytes, its payload or its trailing 32
\* bytes) makes Read of that offset fail with OffsetMismatch or with
\* ChecksumMismatch.
C16_CorruptionDetected ==
    last.op = "Corrupt"
    /\ ReadRes(last.len0, last.store0, last.arg, NoFault).err = "none"
    => ReadNow(last.arg).err \in {"OffsetMismatch", "ChecksumMismatch"}

C16_Witness ==
    /\ last.op = "Corrupt"
    /\ last.data[1] > OffsetSize
    /\ last.data[1] <= Len(store[getObjectKey(last.arg)]) - ChecksumSize
    /\ ReadNow(last.arg).err = "ChecksumMismatch"

\* C17: framing round-trips: parsing the object prepareBody(offset, data)
\* gives back offset and data, and the length of the data is the length of
\* the object minus 40, for empty data too.
C17_FramingRoundTrip ==
    last.op = "Frame" =>
        /\ last.err = "none"
        /\ last.rec = [offset |-> last.arg, data |-> last.data]
        /\ Len(last.rec.data) =
              Len(store[getObjectKey(last.arg)]) - (OffsetSize + ChecksumSize)

C17_Witness ==
    /\ last.op = "Frame" /\ last.arg >= 1 /\ last.data = <<>>
    /\ last.err = "none" /\ last.rec = [offset |-> last.arg, data |-> <<>>]
    /\ Len(store[getObjectKey(last.arg)]) = OffsetSize + ChecksumSize

\* The DeleteObjects calls the last call, a Truncate, sent: the keys of each.
BatchesSent == TruncateDeletes(last.store0, last.arg, NoFault).batches

\* The listed keys that decode to an offset above the Truncate's argument.
KeysAbove ==
    {k \in Listed(last.store0) :
        getOffsetFromKey(k).ok /\ getOffsetFromKey(k).v > last.arg}

\* C19: a Truncate whose store calls succeed deletes in batches of at most
\* the batch limit; the batches together hold exactly the listed keys whose
\* decoded offset is greater than after_offset, each key once; no key with
\* an offset <= after_offset and no undecodable key is deleted.
C19_TruncateBatches ==
    last.op = "Truncate" /\ last.fault = NoFault =>
        /\ last.err = "none"
        /\ \A i \in 1..Len(BatchesSent) :
              Len(BatchesSent[i]) \in 1..BatchLimit
        /\ UNION {{BatchesSent[i][p] : p \in 1..Len(BatchesSent[i])} :
                     i \in 1..Len(BatchesSent)} = KeysAbove
        /\ \A i, j \in 1..Len(BatchesSent) :
              \A p \in 1..Len(BatchesSent[i]), q \in 1..Len(BatchesSent[j]) :
                 BatchesSent[i][p] = BatchesSent[j][q] => i = j /\ p = q
        /\ store = Remove(last.store0, KeysAbove)

C19_Witness ==
    /\ last.op = "Truncate" /\ last.fault = NoFault /\ last.arg = 1
    /\ Len(BatchesSent) >= 2
    /\ Len(BatchesSent[Len(BatchesSent)]) < BatchLimit
    /\ getObjectKey(1) \in DOMAIN store
    /\ KeyLetters \in DOMAIN store
    /\ getObjectKey(2) \in DOMAIN last.store0 \ DOMAIN store

\* C20: key encoding is a bijection that preserves order: decoding the key
\* of an offset gives the offset, the key of a sorts before the key of b
\* exactly when a < b, and decoding fails for a key with no separator, with
\* an empty suffix, or with a suffix that is no unsigned decimal integer.
C20_KeyEncoding ==
    last.op = "Keys" =>
        /\ last.err = "none"
        /\ last.rec.offset = last.arg
        /\ (last.off = 1) <=> (last.arg < last.len0)
        /\ (last.rec.data = getObjectKey(last.len0)) <=> (last.arg = last.len0)
        /\ last.tried = 0

C20_Witness ==
    /\ last.op = "Keys" /\ last.arg = 9 /\ last.len0 = 10
    /\ last.off = 1 /\ last.rec.offset = 9
    /\ last.data \in KeysEmptySuffix /\ last.tried = 0

\* C21: Truncate is all-or-nothing with respect to listing failures: when
\* a list-page call of a Truncate fails, on the first page or on a later
\* one, the Truncate fails, no object has been deleted and the cached
\* length is unchanged.
C21_TruncateListFailure ==
    last.op = "Truncate" /\ last.fault.kind = "list" =>
        /\ last.err = "StoreListFailed"
        /\ store = last.store0
        /\ length = last.len0

\* C22: whenever Recover returns an offset n > 0, whatever keys the prefix
\* holds, an object exists at the key of n, so a Read(n) made next does not
\* fail with NotFound.
C22_RecoveredOffsetExists ==
    Succeeded("Recover") /\ last.off > 0 =>
        /\ getObjectKey(last.off) \in DOMAIN store
        /\ ReadNow(last.off).err # "NotFound"

====
